---- MODULE Spec2Model ----
(***************************************************************************)
(* Azure DevOps PR helper (adopr-helper-mcp): the PR-to-diff pipeline of   *)
(* getPrFileChanges / postPrComment, the REST gateway (sendRequest) and    *)
(* the credential provider (createAuthenticator, OAuthAuthenticator), in   *)
(* the TypeScript server and in its .NET port.                             *)
(*                                                                         *)
(* Granularity: one action per asynchronous continuation.  Code between    *)
(* two awaits runs without interleaving, so an action is everything the    *)
(* handler does from the completion it waited for up to its next await.    *)
(***************************************************************************)
EXTENDS Integers, Sequences, FiniteSets, TLC

MaxInv == 2
MaxChanges == 2

Inv == 1..MaxInv
Flow == 0..MaxChanges
Task == 1..MaxChanges

Absent == "<undefined>"
NoAccount == "<null>"

Ports == {"ts", "dotnet"}
AuthTypes == {"pat", "interactive"}
Accounts == {"acct1", "acct2"}

PAT == "pat-token"
SilentToken == "silent-token"
InteractiveToken == "interactive-token"

HttpErrors == {404, 500}

ReasonPhrase(status) ==
  CASE status = 404 -> "Not Found"
    [] status = 500 -> "Internal Server Error"
    [] OTHER -> ""

(***************************************************************************)
(* Strings that the code takes apart are sequences of tokens; a value that *)
(* may be undefined carries a flag.                                        *)
(***************************************************************************)
Str(toks) == [defined |-> TRUE, toks |-> toks]
Undefined == [defined |-> FALSE, toks |-> <<>>]

RefsHeads == "refs/heads/"

RefValues ==
  { Undefined, Str(<<>>), Str(<<RefsHeads>>),
    Str(<<RefsHeads, "main">>), Str(<<RefsHeads, "feature x">>) }

StatusValues == {"active", "completed", Absent}
MergeStatusValues == {"succeeded", "conflicts", Absent}

\* a response body that is not JSON
NotJson ==
  [ json |-> FALSE, status |-> Absent, mergeStatus |-> Absent,
    sourceRefName |-> Undefined, targetRefName |-> Undefined ]

PullRequestBodies ==
  [ json : {TRUE}, status : StatusValues, mergeStatus : MergeStatusValues,
    sourceRefName : RefValues, targetRefName : RefValues ]
  \cup {NotJson}

\* String.prototype.replace(pattern, "") with a string pattern: first occurrence only
RECURSIVE ReplaceFirst(_, _)
ReplaceFirst(toks, pat) ==
  IF toks = <<>> THEN <<>>
  ELSE IF Head(toks) = pat THEN Tail(toks)
  ELSE <<Head(toks)>> \o ReplaceFirst(Tail(toks), pat)

\* System.String.Replace(old, ""): every occurrence
ReplaceAll(toks, pat) == SelectSeq(toks, LAMBDA t : t # pat)

EncodeToken(t) ==
  CASE t = "feature x" -> "feature%20x"
    [] t = RefsHeads -> "refs%2Fheads%2F"
    [] OTHER -> t

\* encodeURIComponent(v): an undefined argument is converted to the string "undefined"
encodeURIComponent(v) ==
  IF ~v.defined THEN Str(<<"undefined">>)
  ELSE Str([k \in DOMAIN v.toks |-> EncodeToken(v.toks[k])])

\* prDetails?.sourceRefName?.replace("refs/heads/", "")
StripRefTs(ref) == IF ~ref.defined THEN Undefined ELSE Str(ReplaceFirst(ref.toks, RefsHeads))

\* Uri.EscapeDataString(prDetails.SourceRefName.Replace("refs/heads/", ""))
BranchDotnet(ref) ==
  Str([k \in DOMAIN ReplaceAll(ref.toks, RefsHeads) |-> EncodeToken(ReplaceAll(ref.toks, RefsHeads)[k])])

\* !s for a string: only the empty string is falsy; string.IsNullOrEmpty
IsEmptyStr(s) == s.toks = <<>>

LowerOf == ("Add" :> "add") @@ ("Edit" :> "edit") @@ ("Blob" :> "blob") @@ ("Active" :> "active")
ToLower(s) == IF s \in DOMAIN LowerOf THEN LowerOf[s] ELSE s
EqualsIgnoreCase(a, b) == ToLower(a) = ToLower(b)

(***************************************************************************)
(* Errors.  The code throws Error(message); kind names the message.        *)
(***************************************************************************)
NoErr == [kind |-> "none", status |-> 0, reason |-> "", context |-> ""]
Err(kind) == [kind |-> kind, status |-> 0, reason |-> "", context |-> ""]
HttpErr(label, status) ==
  [kind |-> "RemoteRequestFailed", status |-> status,
   reason |-> ReasonPhrase(status), context |-> label]

(***************************************************************************)
(* PR locator.  A URL is a sequence of tokens: the literal pieces of the   *)
(* two patterns in either case, names, digit strings and other text.  The  *)
(* patterns are not anchored, their groups (.+?) are lazy and take any     *)
(* text, and the flag i makes every literal match in either case.          *)
(***************************************************************************)
DigitTokens == {"0", "7", "42"}
DigitValue == ("0" :> 0) @@ ("7" :> 7) @@ ("42" :> 42)

LowerUrl == ("HTTPS://" :> "https://") @@ ("DEV.AZURE.COM/" :> "dev.azure.com/")
ToLowerUrl(t) == IF t \in DOMAIN LowerUrl THEN LowerUrl[t] ELSE t

\* the literals of a pattern around its groups: lead (.+?) sep1 (.+?) sep2 (.+?) sep3 (\d+)
devAzureRegex ==
  [lead |-> <<"https://", "dev.azure.com/">>, sep1 |-> "/",
   sep2 |-> "/_git/", sep3 |-> "/pullrequest/"]
visualStudioRegex ==
  [lead |-> <<"https://">>, sep1 |-> ".visualstudio.com/",
   sep2 |-> "/_git/", sep3 |-> "/pullrequest/"]

PrUrls ==
  { <<"https://", "dev.azure.com/", "org", "/", "proj", "/_git/", "repo", "/pullrequest/", "42">>,
    <<"https://", "example.com/", "org", "/", "proj">> }

NoLocator == [organization |-> "", project |-> "", repository |-> "", pullRequestId |-> -1]

RECURSIVE Concat(_)
Concat(toks) == IF toks = <<>> THEN "" ELSE Head(toks) \o Concat(Tail(toks))

\* the pattern matches at offset m[1] with groups of m[2], m[3] and m[4] tokens
MatchAt(url, pattern, m) ==
  LET g1 == m[1] + Len(pattern.lead)
      g2 == g1 + m[2] + 1
      g3 == g2 + m[3] + 1
      id == g3 + m[4] + 1
  IN /\ id <= Len(url)
     /\ \A k \in 1..Len(pattern.lead) : ToLowerUrl(url[m[1] + k - 1]) = pattern.lead[k]
     /\ ToLowerUrl(url[g2 - 1]) = pattern.sep1
     /\ ToLowerUrl(url[g3 - 1]) = pattern.sep2
     /\ ToLowerUrl(url[id - 1]) = pattern.sep3
     /\ url[id] \in DigitTokens

\* the order in which the regex engine finds matches: leftmost, then shortest groups
Earlier(m, n) ==
  \/ m[1] < n[1]
  \/ m[1] = n[1] /\ m[2] < n[2]
  \/ m[1] = n[1] /\ m[2] = n[2] /\ m[3] < n[3]
  \/ m[1] = n[1] /\ m[2] = n[2] /\ m[3] = n[3] /\ m[4] <= n[4]

\* prUrl.match(pattern); NoLocator stands for undefined
\* N bounds the offset and the group lengths by what the pattern leaves of the url
parsePrUrlInternal(url, pattern) ==
  LET N == 1..(Len(url) - Len(pattern.lead) - 6)
      ms == {m \in N \X N \X N \X N : MatchAt(url, pattern, m)}
      m == CHOOSE x \in ms : \A y \in ms : Earlier(x, y)
      g1 == m[1] + Len(pattern.lead)
      g2 == g1 + m[2] + 1
      g3 == g2 + m[3] + 1
      id == g3 + m[4] + 1
  IN IF ms = {} THEN NoLocator
     ELSE [organization |-> Concat(SubSeq(url, g1, g2 - 2)),
           project |-> Concat(SubSeq(url, g2, g3 - 2)),
           repository |-> Concat(SubSeq(url, g3, id - 2)),
           pullRequestId |-> DigitValue[url[id]]]

\* parsePrUrl: NoLocator stands for the thrown 'Invalid Azure DevOps PR URL format'
parsePrUrl(url) ==
  IF parsePrUrlInternal(url, devAzureRegex) # NoLocator
  THEN parsePrUrlInternal(url, devAzureRegex)
  ELSE parsePrUrlInternal(url, visualStudioRegex)

getBaseUrl(loc) == <<"https://dev.azure.com/", loc.organization, loc.project, loc.repository>>

(***************************************************************************)
(* The remote service: blobs are immutable content named by their id.      *)
(***************************************************************************)
BlobIds == {"o1", "n1", "n2"}
BlobStore == ("o1" :> "old text") @@ ("n1" :> "new text") @@ ("n2" :> "")

GitItem(path, orig, new, type, url) ==
  [objectId |-> new, originalObjectId |-> orig, gitObjectType |-> type,
   path |-> path, url |-> url]

ChangeEntries ==
  { [changeType |-> "add", item |-> GitItem("/a", Absent, "n1", "blob", "u")],
    [changeType |-> "edit", item |-> GitItem("/b", "o1", "n2", "blob", "u")],
    [changeType |-> "edit", item |-> GitItem("/c", "n2", Absent, "blob", "u")],
    [changeType |-> "delete", item |-> GitItem("/b", "o1", Absent, "blob", "u")],
    [changeType |-> "add", item |-> GitItem("/d", Absent, "n1", "tree", "u")] }

ChangeLists == UNION {[1..n -> ChangeEntries] : n \in 0..MaxChanges}

\* the body of the diffs response: a CommitDiffs object, a JSON object without the
\* changes array, or text that is not JSON
CommitDiffs(list) == [json |-> TRUE, hasChanges |-> TRUE, changes |-> list]

DiffsBodies ==
  {CommitDiffs(list) : list \in ChangeLists}
  \cup {[json |-> TRUE, hasChanges |-> FALSE, changes |-> <<>>],
        [json |-> FALSE, hasChanges |-> FALSE, changes |-> <<>>]}

\* isSupportedChange without its gitObjectType test
isSupportedChangeAnyObject(change) ==
  /\ change.changeType \in {"add", "edit"}
  /\ change.item.path # Absent
  /\ change.item.url # Absent

isSupportedChangeTs(change) ==
  /\ change.changeType \in {"add", "edit"}
  /\ change.item.gitObjectType = "blob"
  /\ change.item.path # Absent
  /\ change.item.url # Absent

isSupportedChangeDotnet(change) ==
  /\ ToLower(change.changeType) \in {"add", "edit"}
  /\ EqualsIgnoreCase(change.item.gitObjectType, "blob")
  /\ change.item.path \notin {Absent, ""}
  /\ change.item.url \notin {Absent, ""}

isSupportedChange(p, change) ==
  IF p = "ts" THEN isSupportedChangeTs(change) ELSE isSupportedChangeDotnet(change)

\* sourceContent || '' and sourceContent ?? ""
OrEmpty(c) == IF c = Absent THEN "" ELSE c

\* the unified diff of the two texts, kept as the call that produces it
createPatch(path, old, new) == [fileName |-> path, oldText |-> old, newText |-> new]

FilePatch(item, sourceContent, newContent) ==
  [filePath |-> item.path, sourceContent |-> sourceContent,
   patch |-> createPatch(item.path, OrEmpty(sourceContent), OrEmpty(newContent))]

\* a plausible anchor, one with zero and negative values, one that ends before it starts
CommentOptions ==
  { [comment |-> "looks good", filePath |-> "/a", rightFileStartLine |-> 1,
     rightFileStartOffset |-> 1, rightFileEndLine |-> 1, rightFileEndOffset |-> 5],
    [comment |-> "", filePath |-> "/a", rightFileStartLine |-> 0,
     rightFileStartOffset |-> -1, rightFileEndLine |-> 0, rightFileEndOffset |-> 0],
    [comment |-> "typo", filePath |-> "/b", rightFileStartLine |-> 5,
     rightFileStartOffset |-> 3, rightFileEndLine |-> 2, rightFileEndOffset |-> 1] }

NoOptions ==
  [comment |-> "", filePath |-> "", rightFileStartLine |-> 0,
   rightFileStartOffset |-> 0, rightFileEndLine |-> 0, rightFileEndOffset |-> 0]

\* postPrComment raising negative line and offset values to 0
PrThreadClamped(o) ==
  LET pos(x) == IF x < 0 THEN 0 ELSE x
  IN [comments |-> <<[content |-> o.comment]>>,
      threadContext |-> [filePath |-> o.filePath,
                         rightFileStart |-> [line |-> pos(o.rightFileStartLine),
                                             offset |-> pos(o.rightFileStartOffset)],
                         rightFileEnd |-> [line |-> pos(o.rightFileEndLine),
                                           offset |-> pos(o.rightFileEndOffset)]]]

PrThread(o) ==
  [comments |-> <<[content |-> o.comment]>>,
   threadContext |-> [filePath |-> o.filePath,
                      rightFileStart |-> [line |-> o.rightFileStartLine, offset |-> o.rightFileStartOffset],
                      rightFileEnd |-> [line |-> o.rightFileEndLine, offset |-> o.rightFileEndOffset]]]

(***************************************************************************)
(* State.                                                                  *)
(*   port, authType  which server runs and its --authentication option     *)
(*   host            the server process: the AZURE_DEVOPS_PAT it was started  *)
(*                   with and whether main() left it running               *)
(*   accountId       OAuthAuthenticator.accountId, one provider per server *)
(*   call[i]         arguments of tool invocation i (tool "none": idle)    *)
(*   outcome[i]      what getPrFileChanges / postPrComment settled with    *)
(*   prDetails[i]    status and mergeStatus of the fetched PR summary      *)
(*   changes[i]      the change list that the diffs request returned       *)
(*   fileItems[i]    the filtered change list                              *)
(*   task[i][k]      getFilePatch for fileItems[i][k]                      *)
(*   completed[i]    indices of the finished getFilePatch calls, in order  *)
(*   send[i][k]      the sendRequest call of flow k (0: the invocation     *)
(*                   itself, k >= 1: getFilePatch k); kept after it ended  *)
(*   sent[i]         number of HTTP requests issued, by endpoint           *)
(*   blobFailed[i]   some blob retrieval of invocation i has failed        *)
(*   reply[i]        the tool result that the handler of invocation i      *)
(*                   returned to the client, until the next call           *)
(*   arg, result     argument and result of a helper function called on    *)
(*                   its own (parsePrUrl, isSupportedChange, the diff)     *)
(***************************************************************************)
VARIABLES port, authType, host, accountId, call, outcome, prDetails, changes, fileItems,
          task, completed, send, sent, blobFailed, reply, arg, result

server == <<port, authType, host, accountId, call, outcome, prDetails, changes, fileItems,
            task, completed, send, sent, blobFailed, reply>>

vars == <<port, authType, host, accountId, call, outcome, prDetails, changes, fileItems,
          task, completed, send, sent, blobFailed, reply, arg, result>>

NoArg == [given |-> FALSE]
NotRun == [done |-> FALSE]
Ran(value) == [done |-> TRUE, value |-> value]

Kinds == {"details", "diffs", "blob", "threads"}

NoAuth == [scheme |-> "none", value |-> <<>>]
NoUrl == [base |-> <<>>, kind |-> "none", id |-> 0, sha |-> "",
          baseVersion |-> <<>>, targetVersion |-> <<>>]
NoThread == PrThread(NoOptions)

getPrDetailsUrl(baseUrl, id) == [NoUrl EXCEPT !.base = baseUrl, !.kind = "details", !.id = id]
getDiffsUrl(baseUrl, sourceBranch, targetBranch) ==
  [NoUrl EXCEPT !.base = baseUrl, !.kind = "diffs",
                !.baseVersion = targetBranch.toks, !.targetVersion = sourceBranch.toks]
getBlobUrl(baseUrl, sha) == [NoUrl EXCEPT !.base = baseUrl, !.kind = "blob", !.sha = sha]
getThreadUrl(baseUrl, id) == [NoUrl EXCEPT !.base = baseUrl, !.kind = "threads", !.id = id]

IdleSend ==
  [st |-> "none", url |-> NoUrl, method |-> "", body |-> NoThread, label |-> "",
   accept |-> "", auth |-> NoAuth, attempts |-> 0,
   account |-> NoAccount, silentOutcome |-> "none", interactiveOutcome |-> "none",
   resultAccount |-> NoAccount, respStatus |-> 0, content |-> Absent, err |-> NoErr]

\* a sendRequest call as entered: st "none", nothing issued yet
Request(url, method, body, label, accept) ==
  [IdleSend EXCEPT !.url = url, !.method = method, !.body = body,
                   !.label = label, !.accept = accept]

\* getPrDetails sending its request with method POST
DetailsRequestPost(loc) ==
  Request(getPrDetailsUrl(getBaseUrl(loc), loc.pullRequestId), "POST", NoThread,
          "Failed to get PR details", "application/json")

DetailsRequest(loc) ==
  Request(getPrDetailsUrl(getBaseUrl(loc), loc.pullRequestId), "GET", NoThread,
          "Failed to get PR details", "application/json")
DiffsRequest(loc, sourceBranch, targetBranch) ==
  Request(getDiffsUrl(getBaseUrl(loc), sourceBranch, targetBranch), "GET", NoThread,
          "Failed to get git changes", "application/json")
BlobRequest(loc, sha) ==
  Request(getBlobUrl(getBaseUrl(loc), sha), "GET", NoThread,
          "Failed to download blob content", "text/plain")
ThreadRequest(loc, options) ==
  Request(getThreadUrl(getBaseUrl(loc), loc.pullRequestId), "POST", PrThread(options),
          "Failed to create thread", "application/json")

btoa(toks) == <<"base64">> \o toks

\* getDefaultHeaders without the test of authOptions.type
AuthorizationBearerOnly(type, token) == [scheme |-> "Bearer", value |-> <<token>>]

Authorization(type, token) ==
  IF type = "pat" THEN [scheme |-> "Basic", value |-> btoa(<<":", token>>)]
  ELSE [scheme |-> "Bearer", value |-> <<token>>]

\* what stays of a sendRequest call once it has settled: its locals are gone
Settle(s) ==
  [IdleSend EXCEPT !.url = [NoUrl EXCEPT !.kind = s.url.kind], !.method = s.method,
                   !.label = s.label, !.attempts = s.attempts,
                   !.interactiveOutcome = s.interactiveOutcome,
                   !.respStatus = s.respStatus]

\* the send ends by throwing e
Throw(s, e) == [Settle(s) EXCEPT !.st = "failed", !.err = e]

\* getDefaultHeaders after the token provider answered, then fetch(url, options)
getDefaultHeaders(s, type, token) ==
  IF token = "" THEN Throw(s, Err("MissingCredential"))
  ELSE [s EXCEPT !.st = "fetch", !.auth = Authorization(type, token), !.attempts = @ + 1]

\* OAuthAuthenticator.getToken up to its first await, given the cached account
getTokenEnter(s, account) ==
  IF account # NoAccount
  THEN [s EXCEPT !.st = "silent", !.account = account]
  ELSE [s EXCEPT !.st = "interactive"]

\* sendRequest up to its first await
\* sendRequest issuing the request without awaiting getDefaultHeaders
sendRequestNoHeaders(s, type, account) == [s EXCEPT !.st = "fetch", !.attempts = @ + 1]

sendRequest(s, type, account) ==
  IF type = "pat" THEN getDefaultHeaders(s, "pat", host.pat)
  ELSE getTokenEnter(s, account)

(***************************************************************************)
(* OAuthAuthenticator.getToken after its awaits.                           *)
(***************************************************************************)
AuthOutcomes == {"throw", "token", "empty"}

\* getToken returning authResult.accessToken unchecked
getTokenReturnUnchecked(s, token) == getDefaultHeaders(s, "interactive", token)

\* if (!authResult.accessToken) throw ...; return authResult.accessToken -> getDefaultHeaders
getTokenReturn(s, token) ==
  IF token = "" THEN Throw(s, Err("AuthenticationFailed"))
  ELSE getDefaultHeaders(s, "interactive", token)

\* getToken going on to acquireTokenInteractive whatever acquireTokenSilent gave
getTokenAlwaysInteractive(s, o) ==
  [s EXCEPT !.st = "interactive", !.silentOutcome = o, !.account = NoAccount]

\* acquireTokenSilent settled: catch -> authResult = null; if (!authResult) acquireTokenInteractive
getTokenAfterSilent(s, o) ==
  IF o = "throw" THEN [s EXCEPT !.st = "interactive", !.silentOutcome = o, !.account = NoAccount]
  ELSE getTokenReturn([s EXCEPT !.silentOutcome = o, !.account = NoAccount],
                      IF o = "token" THEN SilentToken ELSE "")

\* getToken without the assignment to this.accountId
CacheNothing(cached, resultAccount) == cached

\* this.accountId = authResult.account
CacheAccount(cached, resultAccount) == resultAccount

\* acquireTokenInteractive settled
getTokenAfterInteractive(s, o, acct) ==
  IF o = "throw" THEN Throw([s EXCEPT !.interactiveOutcome = o], Err("InteractionFailed"))
  ELSE getTokenReturn([s EXCEPT !.interactiveOutcome = o, !.resultAccount = acct],
                      IF o = "token" THEN InteractiveToken ELSE "")

(***************************************************************************)
(* sendRequest / GetBlobContentAsync / SendRequestAsync<T> after the       *)
(* response arrived.                                                       *)
(***************************************************************************)
Ok(s, status, content) ==
  [Settle(s) EXCEPT !.st = "ok", !.respStatus = status, !.content = content]

\* if (!response.ok) throw new Error(`${errorMessage}: HTTP ${status}: ${statusText}`)
\* GetBlobContentAsync: if (!response.IsSuccessStatusCode) return null
onErrorStatus(p, s, status) ==
  IF p = "dotnet" /\ s.url.kind = "blob" THEN Ok(s, status, Absent)
  ELSE Throw([s EXCEPT !.respStatus = status], HttpErr(s.label, status))

\* JsonSerializer.Deserialize<PullRequest>: every property of the record is required
DeserializePullRequest(body) ==
  /\ body.status # Absent
  /\ body.mergeStatus # Absent
  /\ body.sourceRefName.defined
  /\ body.targetRefName.defined

\* await response.json() rejects with a SyntaxError; JsonSerializer.Deserialize<T> throws
\* a JsonException
JsonError(p) == Err(IF p = "ts" THEN "SyntaxError" ELSE "JsonException")

onDetailsResponse(p, s, body) ==
  IF ~body.json THEN Throw([s EXCEPT !.respStatus = 200], JsonError(p))
  ELSE IF p = "dotnet" /\ ~DeserializePullRequest(body)
  THEN Throw([s EXCEPT !.respStatus = 200], Err("JsonException"))
  ELSE Ok(s, 200, Absent)

\* JsonSerializer.Deserialize<CommitDiffs>: Changes is required
onDiffsResponse(p, s, data) ==
  IF ~data.json THEN Throw([s EXCEPT !.respStatus = 200], JsonError(p))
  ELSE IF p = "dotnet" /\ ~data.hasChanges
  THEN Throw([s EXCEPT !.respStatus = 200], Err("JsonException"))
  ELSE Ok(s, 200, Absent)

(***************************************************************************)
(* getPrDetails and the branch names of getPrFileChanges.                  *)
(***************************************************************************)
\* getPrDetails without its mergeStatus test
getPrDetailsNoMergeCheck(body) ==
  IF body.status # "active" THEN Err("PullRequestNotActive") ELSE NoErr

\* getPrDetails with its two tests in the other order
getPrDetailsMergeFirst(body) ==
  IF body.mergeStatus # "succeeded" THEN Err("PullRequestHasConflicts")
  ELSE IF body.status # "active" THEN Err("PullRequestNotActive")
  ELSE NoErr

getPrDetailsTs(body) ==
  IF body.status # "active" THEN Err("PullRequestNotActive")
  ELSE IF body.mergeStatus # "succeeded" THEN Err("PullRequestHasConflicts")
  ELSE NoErr

GetPrDetailsAsync(body) ==
  IF ~EqualsIgnoreCase(body.status, "active") THEN Err("PullRequestNotActive")
  ELSE IF ~EqualsIgnoreCase(body.mergeStatus, "succeeded") THEN Err("PullRequestHasConflicts")
  ELSE NoErr

getPrDetails(p, body) == IF p = "ts" THEN getPrDetailsTs(body) ELSE GetPrDetailsAsync(body)

sourceBranchOf(p, body) ==
  IF p = "ts" THEN encodeURIComponent(StripRefTs(body.sourceRefName))
  ELSE BranchDotnet(body.sourceRefName)

targetBranchOf(p, body) ==
  IF p = "ts" THEN encodeURIComponent(StripRefTs(body.targetRefName))
  ELSE BranchDotnet(body.targetRefName)

\* if (!sourceBranch || !targetBranch) throw ...
branchCheck(sourceBranch, targetBranch) ==
  IF IsEmptyStr(sourceBranch) \/ IsEmptyStr(targetBranch)
  THEN Err("BranchResolutionFailed") ELSE NoErr

(***************************************************************************)
(* The per-invocation part of the state, and the continuations on it.      *)
(***************************************************************************)
NoOutcome == [state |-> "none", error |-> NoErr, changes |-> <<>>]
Pending == [state |-> "pending", error |-> NoErr, changes |-> <<>>]
Failure(e) == [state |-> "error", error |-> e, changes |-> <<>>]
Success(fileChanges) == [state |-> "ok", error |-> NoErr, changes |-> fileChanges]

\* the ref names no branch: absent, empty, or nothing but the refs/heads/ prefix
NoBranchName(ref) == ~ref.defined \/ ref.toks = <<>> \/ ref.toks = <<RefsHeads>>

\* what is kept of the PR summary in the response: status, mergeStatus, whether a
\* ref names no branch, whether the port decoded the body into its PullRequest, and
\* whether the body is not JSON or lacks a property of PullRequest
NoDetails ==
  [status |-> "none", mergeStatus |-> "none", noBranch |-> FALSE, decoded |-> FALSE,
   malformed |-> FALSE]
Summary(body, decoded) ==
  [status |-> body.status, mergeStatus |-> body.mergeStatus,
   noBranch |-> NoBranchName(body.sourceRefName) \/ NoBranchName(body.targetRefName),
   decoded |-> decoded,
   malformed |-> ~body.json \/ ~DeserializePullRequest(body)]
IdleTask == [stage |-> "none", sourceContent |-> Absent, newContent |-> Absent, err |-> NoErr]
\* account: this.accountId of the credential provider when the handler was entered
NoCall == [tool |-> "none", prUrl |-> <<>>, options |-> NoOptions, account |-> NoAccount]
NoSent == [kd \in Kinds |-> 0]

\* const changes = await this.getGitChanges(diffsUrl), before and after the await
\* malformed: the body of the diffs response is not JSON or lacks the changes array
NoChanges == [fetched |-> FALSE, list |-> <<>>, malformed |-> FALSE]
Changes(list) == [fetched |-> TRUE, list |-> list, malformed |-> FALSE]

Local(i) ==
  [outcome |-> outcome[i], prDetails |-> prDetails[i],
   changes |-> changes[i], fileItems |-> fileItems[i],
   task |-> task[i], completed |-> completed[i], send |-> send[i]]

Truthy(x) == x \notin {Absent, ""}

Settled(t) == t.stage \in {"done", "failed"}

\* a join that collects the patches as the getFilePatch calls finish
JoinInCompletionOrder(p, cur, items, ts, order) ==
  LET n == Len(items)
      failed == {k \in 1..n : ts[k].stage = "failed"}
      first == CHOOSE k \in failed : \A j \in failed : k <= j
      patches == [j \in 1..Len(order) |->
                   FilePatch(items[order[j]], ts[order[j]].sourceContent, ts[order[j]].newContent)]
  IN IF failed # {} THEN (IF cur.state = "pending" THEN Failure(ts[first].err) ELSE cur)
     ELSE IF \A k \in 1..n : ts[k].stage = "done" THEN Success(patches)
     ELSE cur

\* a join that returns the patches as soon as one getFilePatch call has finished
JoinAny(p, cur, items, ts, order) ==
  LET n == Len(items)
      failed == {k \in 1..n : ts[k].stage = "failed"}
      first == CHOOSE k \in failed : \A j \in failed : k <= j
      patches == [k \in 1..n |-> FilePatch(items[k], ts[k].sourceContent, ts[k].newContent)]
  IN IF cur.state # "pending" THEN cur
     ELSE IF failed # {} THEN Failure(ts[first].err)
     ELSE IF \E k \in 1..n : ts[k].stage = "done" THEN Success(patches)
     ELSE cur

\* await Promise.all(getFileTasks) / await Task.WhenAll(getFileTasks), looked at after
\* a getFilePatch call changed: cur is the outcome so far, order the completion order
JoinAll(p, cur, items, ts, order) ==
  LET n == Len(items)
      failed == {k \in 1..n : ts[k].stage = "failed"}
      first == CHOOSE k \in failed : \A j \in failed : k <= j
      patches == [k \in 1..n |-> FilePatch(items[k], ts[k].sourceContent, ts[k].newContent)]
  IN IF p = "ts"
     THEN IF cur.state # "pending" THEN cur
          ELSE IF failed # {} THEN Failure(ts[first].err)
          ELSE IF \A k \in 1..n : ts[k].stage = "done" THEN Success(patches)
          ELSE cur
     ELSE IF \E k \in 1..n : ~Settled(ts[k]) THEN cur
          ELSE IF failed # {} THEN Failure(ts[first].err)
          ELSE Success(patches)

\* getFilePatch up to its first await
getFilePatchEnter(loc, item, type, account) ==
  IF Truthy(item.originalObjectId)
  THEN [task |-> [IdleTask EXCEPT !.stage = "orig"],
        send |-> sendRequest(BlobRequest(loc, item.originalObjectId), type, account)]
  ELSE IF Truthy(item.objectId)
  THEN [task |-> [IdleTask EXCEPT !.stage = "new"],
        send |-> sendRequest(BlobRequest(loc, item.objectId), type, account)]
  ELSE [task |-> [IdleTask EXCEPT !.stage = "done"], send |-> IdleSend]

\* getFilePatch after getBlobContent settled with s
getFilePatchResume(loc, item, t, s, type, account) ==
  IF s.st = "failed"
  THEN [task |-> [t EXCEPT !.stage = "failed", !.err = s.err], send |-> s]
  ELSE IF t.stage = "orig"
  THEN IF Truthy(item.objectId)
       THEN [task |-> [t EXCEPT !.stage = "new", !.sourceContent = s.content],
             send |-> sendRequest(BlobRequest(loc, item.objectId), type, account)]
       ELSE [task |-> [t EXCEPT !.stage = "done", !.sourceContent = s.content],
             send |-> [s EXCEPT !.content = Absent]]
  ELSE [task |-> [t EXCEPT !.stage = "done", !.newContent = s.content],
        send |-> [s EXCEPT !.content = Absent]]

\* getPrFileChanges from the PR details response to its next await
afterDetails(p, type, account, loc, L, s, body) ==
  LET seen == [L EXCEPT !.send[0] = s,
                        !.prDetails = Summary(body, TRUE)]
      sourceBranch == sourceBranchOf(p, body)
      targetBranch == targetBranchOf(p, body)
  IN IF getPrDetails(p, body) # NoErr
     THEN [seen EXCEPT !.outcome = Failure(getPrDetails(p, body))]
     ELSE IF branchCheck(sourceBranch, targetBranch) # NoErr
     THEN [seen EXCEPT !.outcome = Failure(branchCheck(sourceBranch, targetBranch))]
     ELSE [seen EXCEPT !.send[0] =
             sendRequest(DiffsRequest(loc, sourceBranch, targetBranch), type, account)]

\* getPrFileChanges mapping the change list without filtering it
supportedItemsUnfiltered(p, list) == [k \in 1..Len(list) |-> list[k].item]

\* changes.filter(c => this.isSupportedChange(c)).map(c => c.item)
supportedItems(p, list) ==
  LET kept == SelectSeq(list, LAMBDA c : isSupportedChange(p, c))
  IN [k \in 1..Len(kept) |-> kept[k].item]

\* getPrFileChanges without its changes.length test
changesCheckFilteredOnly(list, items) ==
  IF Len(items) = 0 THEN Err("NoEligibleFiles") ELSE NoErr

\* if (changes.length === 0) throw ...; if (fileItems.length === 0) throw ...
changesCheck(list, items) ==
  IF Len(list) = 0 THEN Err("NoChangesFound")
  ELSE IF Len(items) = 0 THEN Err("NoEligibleFiles")
  ELSE NoErr

\* getPrFileChanges from the diffs response to its next await; data.changes || []
afterDiffs(p, type, account, loc, L0, s, data) ==
  LET list == data.changes
      L == [L0 EXCEPT !.changes = [Changes(list) EXCEPT !.malformed = ~data.hasChanges]]
      items == supportedItems(p, list)
      n == Len(items)
      entered == [k \in 1..n |-> getFilePatchEnter(loc, items[k], type, account)]
      ts == [k \in Task |-> IF k <= n THEN entered[k].task ELSE IdleTask]
      done == SelectSeq([k \in 1..n |-> k], LAMBDA k : Settled(ts[k]))
  IN IF changesCheck(list, items) # NoErr
     THEN [L EXCEPT !.send[0] = s, !.outcome = Failure(changesCheck(list, items))]
     ELSE [L EXCEPT !.fileItems = items,
                    !.task = ts,
                    !.completed = done,
                    !.send = [k \in Flow |-> IF k = 0 THEN s
                                             ELSE IF k <= n THEN entered[k].send
                                             ELSE IdleSend],
                    !.outcome = JoinAll(p, L.outcome, items, ts, done)]

\* flow k >= 1: getFilePatch k continues after its blob send settled, then the join
afterBlob(p, type, account, loc, L, k, s) ==
  LET r == getFilePatchResume(loc, L.fileItems[k], L.task[k], s, type, account)
      ts == [L.task EXCEPT ![k] = r.task]
      order == IF Settled(r.task) THEN Append(L.completed, k) ELSE L.completed
  IN [L EXCEPT !.task = ts, !.completed = order, !.send[k] = r.send,
               !.outcome = JoinAll(p, L.outcome, L.fileItems, ts, order)]

\* what the code awaiting send s of flow k does once s has settled (st "ok" or "failed")
resume(p, type, account, loc, L, k, s, body) ==
  IF k # 0 THEN afterBlob(p, type, account, loc, L, k, s)
  ELSE IF s.st = "failed"
  THEN [L EXCEPT !.send[0] = s, !.outcome = Failure(s.err),
                 !.prDetails = IF s.url.kind = "details" /\ s.respStatus = 200
                               THEN Summary(body, FALSE) ELSE @,
                 !.changes = IF s.url.kind = "diffs" /\ s.respStatus = 200
                             THEN [NoChanges EXCEPT !.malformed = TRUE] ELSE @]
  ELSE IF s.url.kind = "details" THEN afterDetails(p, type, account, loc, L, s, body)
  ELSE IF s.url.kind = "diffs" THEN afterDiffs(p, type, account, loc, L, s, body)
  ELSE [L EXCEPT !.send[0] = s, !.outcome = Success(<<>>)]

\* flow k goes on with send record s: waits on, or the awaiting code resumes
advance(p, type, account, loc, L, k, s, body) ==
  IF s.st \in {"ok", "failed"} THEN resume(p, type, account, loc, L, k, s, body)
  ELSE [L EXCEPT !.send[k] = s]

InFlight(s) == s.st \in {"silent", "interactive", "fetch"}

\* requests that an action issued: send records that changed into "fetch"
Issued(i, L, kd) ==
  Cardinality({k \in Flow : /\ L.send[k] # send[i][k]
                            /\ L.send[k].st = "fetch"
                            /\ L.send[k].url.kind = kd})

Apply(i, L, blobFailure) ==
  \E X \in {L} :
    /\ outcome' = [outcome EXCEPT ![i] = X.outcome]
    /\ prDetails' = [prDetails EXCEPT ![i] = X.prDetails]
    /\ changes' = [changes EXCEPT ![i] = X.changes]
    /\ fileItems' = [fileItems EXCEPT ![i] = X.fileItems]
    /\ task' = [task EXCEPT ![i] = X.task]
    /\ completed' = [completed EXCEPT ![i] = X.completed]
    /\ send' = [send EXCEPT ![i] = X.send]
    /\ sent' = [sent EXCEPT ![i] = [kd \in Kinds |-> @[kd] + Issued(i, X, kd)]]
    /\ blobFailed' = [blobFailed EXCEPT ![i] = @ \/ blobFailure]
    /\ UNCHANGED <<arg, result>>

\* the locator of each URL a call can carry, parsed once
ParsedUrls == [url \in PrUrls \cup {NoCall.prUrl} |-> parsePrUrl(url)]

Locator(i) == ParsedUrls[call[i].prUrl]

(***************************************************************************)
(* The tool handlers: try { await operation; return the success text }     *)
(* catch (error) { return the error text with isError: true }.             *)
(***************************************************************************)
NoReply == [given |-> FALSE, isError |-> FALSE, text |-> <<>>]

ErrorPrefix(tool) ==
  IF tool = "get_pr_changes" THEN "Error fetching PR changes: " ELSE "Error posting comment: "

SuccessText(tool, out) ==
  IF tool = "get_pr_changes"
  THEN <<"success: true", Len(out.changes), out.changes>>
  ELSE <<"success: true">>

ToolResult(tool, out) ==
  IF out.state = "ok"
  THEN [given |-> TRUE, isError |-> FALSE, text |-> SuccessText(tool, out)]
  ELSE [given |-> TRUE, isError |-> TRUE, text |-> <<ErrorPrefix(tool), out.error>>]

(***************************************************************************)
(* main() / RunServerAsync: createAuthenticator throws when the type is    *)
(* pat and AZURE_DEVOPS_PAT is empty or not set, and the process exits.    *)
(***************************************************************************)
\* the values of AZURE_DEVOPS_PAT; only createAuthenticator('pat') reads it
Environment(type) == IF type = "pat" THEN {PAT, ""} ELSE {""}

createAuthenticator(type, pat) ==
  IF type = "pat" /\ pat = ""
  THEN [pat |-> pat, state |-> "exited", error |-> Err("MissingCredential")]
  ELSE [pat |-> pat, state |-> "running", error |-> NoErr]

(***************************************************************************)
(* Actions.                                                                *)
(***************************************************************************)
ServerInit ==
  /\ port \in Ports
  /\ authType \in AuthTypes
  /\ host \in {createAuthenticator(authType, pat) : pat \in Environment(authType)}
  /\ accountId = NoAccount
  /\ call = [i \in Inv |-> NoCall]
  /\ outcome = [i \in Inv |-> NoOutcome]
  /\ prDetails = [i \in Inv |-> NoDetails]
  /\ changes = [i \in Inv |-> NoChanges]
  /\ fileItems = [i \in Inv |-> <<>>]
  /\ task = [i \in Inv |-> [k \in Task |-> IdleTask]]
  /\ completed = [i \in Inv |-> <<>>]
  /\ send = [i \in Inv |-> [k \in Flow |-> IdleSend]]
  /\ sent = [i \in Inv |-> NoSent]
  /\ blobFailed = [i \in Inv |-> FALSE]
  /\ reply = [i \in Inv |-> NoReply]

Init == ServerInit /\ arg = NoArg /\ result = NotRun

\* the get_pr_changes handler calls getPrFileChanges, which runs to its first await
GetPrChanges(i) ==
  /\ host.state = "running"
  /\ call[i].tool = "none"
  /\ \E url \in PrUrls :
       LET loc == parsePrUrl(url)
           L == IF loc = NoLocator
                THEN [Local(i) EXCEPT !.outcome = Failure(Err("InvalidLocator"))]
                ELSE [Local(i) EXCEPT !.outcome = Pending,
                                      !.send[0] = sendRequest(DetailsRequest(loc), authType, accountId)]
       IN /\ call' = [call EXCEPT ![i] = [NoCall EXCEPT !.tool = "get_pr_changes", !.prUrl = url,
                                                            !.account = accountId]]
          /\ Apply(i, L, FALSE)
  /\ reply' = [reply EXCEPT ![i] = NoReply]
  /\ UNCHANGED <<port, authType, host, accountId>>

\* the post_pr_comment handler calls postPrComment, which runs to its first await
PostPrComment(i) ==
  /\ host.state = "running"
  /\ call[i].tool = "none"
  /\ \E url \in PrUrls, o \in CommentOptions :
       LET loc == parsePrUrl(url)
           L == IF loc = NoLocator
                THEN [Local(i) EXCEPT !.outcome = Failure(Err("InvalidLocator"))]
                ELSE [Local(i) EXCEPT !.outcome = Pending,
                                      !.send[0] = sendRequest(ThreadRequest(loc, o), authType, accountId)]
       IN /\ call' = [call EXCEPT ![i] = [tool |-> "post_pr_comment", prUrl |-> url, options |-> o,
                                          account |-> accountId]]
          /\ Apply(i, L, FALSE)
  /\ reply' = [reply EXCEPT ![i] = NoReply]
  /\ UNCHANGED <<port, authType, host, accountId>>

\* acquireTokenSilent of flow k settles
SilentSettles(i, k) ==
  /\ send[i][k].st = "silent"
  /\ \E o \in AuthOutcomes :
       LET s == getTokenAfterSilent(send[i][k], o)
       IN Apply(i, advance(port, authType, accountId, Locator(i), Local(i), k, s, Absent),
                s.url.kind = "blob" /\ s.st = "failed")
  /\ UNCHANGED <<port, authType, host, accountId, call, reply>>

\* acquireTokenInteractive of flow k settles
InteractiveSettles(i, k) ==
  /\ send[i][k].st = "interactive"
  /\ \E o \in AuthOutcomes, acct \in Accounts :
       LET s == getTokenAfterInteractive(send[i][k], o, acct)
       IN /\ accountId' = IF o = "throw" THEN accountId ELSE CacheAccount(accountId, acct)
          /\ Apply(i, advance(port, authType, accountId, Locator(i), Local(i), k, s, Absent),
                   s.url.kind = "blob" /\ s.st = "failed")
  /\ UNCHANGED <<port, authType, host, call, reply>>

\* the response to the request of flow k arrives with a non-2xx status
ErrorResponse(i, k) ==
  /\ send[i][k].st = "fetch"
  /\ \E status \in HttpErrors :
       LET s == onErrorStatus(port, send[i][k], status)
       IN Apply(i, advance(port, authType, accountId, Locator(i), Local(i), k, s, Absent),
                s.url.kind = "blob")
  /\ UNCHANGED <<port, authType, host, accountId, call, reply>>

\* the 2xx response to the PR details request arrives
DetailsResponse(i) ==
  /\ send[i][0].st = "fetch"
  /\ send[i][0].url.kind = "details"
  /\ \E body \in PullRequestBodies :
       Apply(i, advance(port, authType, accountId, Locator(i), Local(i), 0,
                        onDetailsResponse(port, send[i][0], body), body), FALSE)
  /\ UNCHANGED <<port, authType, host, accountId, call, reply>>

\* the 2xx response to the diffs request arrives
DiffsResponse(i) ==
  /\ send[i][0].st = "fetch"
  /\ send[i][0].url.kind = "diffs"
  /\ \E data \in DiffsBodies :
       Apply(i, advance(port, authType, accountId, Locator(i), Local(i), 0,
                        onDiffsResponse(port, send[i][0], data), data), FALSE)
  /\ UNCHANGED <<port, authType, host, accountId, call, reply>>

\* the 2xx response to the blob request of getFilePatch k arrives
BlobResponse(i, k) ==
  /\ send[i][k].st = "fetch"
  /\ send[i][k].url.kind = "blob"
  /\ Apply(i, advance(port, authType, accountId, Locator(i), Local(i), k,
                      Ok(send[i][k], 200, BlobStore[send[i][k].url.sha]), Absent), FALSE)
  /\ UNCHANGED <<port, authType, host, accountId, call, reply>>

\* the 2xx response to the thread POST arrives
ThreadResponse(i) ==
  /\ send[i][0].st = "fetch"
  /\ send[i][0].url.kind = "threads"
  /\ Apply(i, advance(port, authType, accountId, Locator(i), Local(i), 0,
                      Ok(send[i][0], 200, Absent), Absent), FALSE)
  /\ UNCHANGED <<port, authType, host, accountId, call, reply>>

\* the tool handler has returned its result and nothing of the invocation is left running
Return(i) ==
  /\ outcome[i].state \in {"ok", "error"}
  /\ \A k \in Flow : ~InFlight(send[i][k])
  /\ call' = [call EXCEPT ![i] = NoCall]
  /\ outcome' = [outcome EXCEPT ![i] = NoOutcome]
  /\ prDetails' = [prDetails EXCEPT ![i] = NoDetails]
  /\ changes' = [changes EXCEPT ![i] = NoChanges]
  /\ fileItems' = [fileItems EXCEPT ![i] = <<>>]
  /\ task' = [task EXCEPT ![i] = [k \in Task |-> IdleTask]]
  /\ completed' = [completed EXCEPT ![i] = <<>>]
  /\ send' = [send EXCEPT ![i] = [k \in Flow |-> IdleSend]]
  /\ sent' = [sent EXCEPT ![i] = NoSent]
  /\ blobFailed' = [blobFailed EXCEPT ![i] = FALSE]
  /\ reply' = [reply EXCEPT ![i] = ToolResult(call[i].tool, outcome[i])]
  /\ UNCHANGED <<port, authType, host, accountId, arg, result>>

(***************************************************************************)
(* Spec: the client invokes the tools one after the other (one invocation  *)
(* slot); the flows of an invocation (the getFilePatch calls, and those a  *)
(* rejected Promise.all left running) interleave.                          *)
(***************************************************************************)
Only == CHOOSE i \in Inv : \A j \in Inv : i <= j

Next ==
  \/ GetPrChanges(Only)
  \/ PostPrComment(Only)
  \/ \E k \in Flow : SilentSettles(Only, k)
  \/ \E k \in Flow : InteractiveSettles(Only, k)
  \/ \E k \in Flow : ErrorResponse(Only, k)
  \/ DetailsResponse(Only)
  \/ DiffsResponse(Only)
  \/ \E k \in Task : BlobResponse(Only, k)
  \/ ThreadResponse(Only)
  \/ Return(Only)

Spec == Init /\ [][Next]_vars

(***************************************************************************)
(* SpecFair: every token acquisition and every request of an invocation    *)
(* completes, with a result or a failure; the client need not call.        *)
(***************************************************************************)
Completes(i) ==
  \/ \E k \in Flow : SilentSettles(i, k)
  \/ \E k \in Flow : InteractiveSettles(i, k)
  \/ \E k \in Flow : ErrorResponse(i, k)
  \/ DetailsResponse(i)
  \/ DiffsResponse(i)
  \/ \E k \in Task : BlobResponse(i, k)
  \/ ThreadResponse(i)

SpecFair == Spec /\ WF_vars(Completes(Only))

(***************************************************************************)
(* SpecConcurrent: post_pr_comment invocations run concurrently on the one *)
(* credential provider.                                                    *)
(***************************************************************************)
NextConcurrent ==
  \/ \E i \in Inv : PostPrComment(i)
  \/ \E i \in Inv : SilentSettles(i, 0)
  \/ \E i \in Inv : InteractiveSettles(i, 0)
  \/ \E i \in Inv : ErrorResponse(i, 0)
  \/ \E i \in Inv : ThreadResponse(i)
  \/ \E i \in Inv : Return(i)

SpecConcurrent == Init /\ [][NextConcurrent]_vars

(***************************************************************************)
(* SpecFilter: isSupportedChange applied to one change entry of the diffs  *)
(* response, over the change types and object types of the service.        *)
(***************************************************************************)
ChangeTypes == {"add", "edit", "delete", "rename", "move", "edit, rename"}
GitObjectTypes == {"blob", "tree", "commit"}

GitChanges ==
  { [changeType |-> t, item |-> GitItem(path, orig, "n1", type, url)] :
      t \in ChangeTypes, type \in GitObjectTypes,
      path \in {Absent, "/a"}, url \in {Absent, "u"}, orig \in {Absent, "o1"} }

InitFilter == ServerInit /\ arg \in GitChanges /\ result = NotRun

FilterChange ==
  /\ ~result.done
  /\ result' = Ran(isSupportedChange(port, arg))
  /\ UNCHANGED <<server, arg>>

NextFilter == FilterChange

SpecFilter == InitFilter /\ [][NextFilter]_vars

(***************************************************************************)
(* SpecParse: parsePrUrl applied to one string: a URL of one of the two    *)
(* shapes or a string that is not one (another host, no project segment, a *)
(* non-numeric id), bare or with text before it or after it.               *)
(***************************************************************************)
Schemes == {"https://", "HTTPS://"}
IdTokens == DigitTokens \cup {"abc"}

UrlCores ==
  { <<sc, site, "org", "/", "proj", "/_git/", "repo", "/pullrequest/", id>> :
      sc \in Schemes, site \in {"dev.azure.com/", "example.com/"}, id \in IdTokens }
  \cup { <<sc, "org", ".visualstudio.com/", "proj", "/_git/", "repo", "/pullrequest/", id>> :
           sc \in Schemes, id \in IdTokens }
  \cup { <<"https://", "dev.azure.com/", "org", "/_git/", "repo", "/pullrequest/", id>> :
           id \in IdTokens }

UrlStrings ==
  { before \o core \o after :
      before \in {<<>>, <<"see ">>}, core \in UrlCores, after \in {<<>>, <<"abc">>} }

InitParse == ServerInit /\ arg \in UrlStrings /\ result = NotRun

ParseUrl ==
  /\ ~result.done
  /\ result' = Ran(parsePrUrl(arg))
  /\ UNCHANGED <<server, arg>>

NextParse == ParseUrl

SpecParse == InitParse /\ [][NextParse]_vars

(***************************************************************************)
(* The diff synthesizer.  A text is its sequence of lines.  Both ports get *)
(* the line comparison from a library (DiffPlex InlineDiffBuilder, the     *)
(* diff package): a shortest edit script of Unchanged, Deleted and         *)
(* Inserted lines, the deleted lines of a changed block before its         *)
(* inserted ones; which of several shortest scripts is the library's       *)
(* choice.                                                                 *)
(***************************************************************************)
MaxLines == 3
LineTexts == {"a", "b"}
Texts == UNION {[1..n -> LineTexts] : n \in 0..MaxLines}

DiffLine(type, text) == [type |-> type, text |-> text]

RECURSIVE EditScripts(_, _)
EditScripts(old, new) ==
  IF old = <<>> /\ new = <<>> THEN {<<>>}
  ELSE (IF old # <<>> /\ new # <<>> /\ Head(old) = Head(new)
        THEN {<<DiffLine("Unchanged", Head(old))>> \o r : r \in EditScripts(Tail(old), Tail(new))}
        ELSE {})
       \cup (IF old # <<>>
             THEN {<<DiffLine("Deleted", Head(old))>> \o r : r \in EditScripts(Tail(old), new)}
             ELSE {})
       \cup (IF new # <<>>
             THEN {<<DiffLine("Inserted", Head(new))>> \o r : r \in EditScripts(old, Tail(new))}
             ELSE {})

Kept(lines) == Len(SelectSeq(lines, LAMBDA l : l.type = "Unchanged"))

\* builder.BuildDiffModel(oldText, newText).Lines: the scripts the library may return
BuildDiffModel(old, new) ==
  LET all == EditScripts(old, new)
      blocks == {r \in all : \A k \in 1..(Len(r) - 1) :
                               ~(r[k].type = "Inserted" /\ r[k + 1].type = "Deleted")}
  IN {r \in blocks : \A q \in blocks : Kept(q) <= Kept(r)}

\* sb.AppendLine($"@@ -{oldStart},{oldCount} +{oldStart},{newCount} @@"), then the lines
WriteHunk(sb, oldStart, oldCount, newCount, lines) ==
  Append(sb, [oldStart |-> oldStart, oldCount |-> oldCount,
              newStart |-> oldStart, newCount |-> newCount, lines |-> lines])

HunkLine(sign, text) == [sign |-> sign, text |-> text]

\* the locals of GenerateUnifiedDiff before its loop
DiffStart ==
  [sb |-> <<>>, oldLineNumber |-> 1, newLineNumber |-> 1, hunkStart |-> 0, hunkLines |-> <<>>]

\* the loop body writing the pending hunk at every unchanged line
OnDiffLineAlwaysWrite(d, line) ==
  CASE line.type = "Unchanged" ->
         [d EXCEPT !.sb = WriteHunk(d.sb, d.hunkStart, d.oldLineNumber - d.hunkStart,
                                    d.newLineNumber - d.hunkStart, d.hunkLines),
                   !.hunkLines = <<>>,
                   !.hunkStart = d.oldLineNumber,
                   !.oldLineNumber = @ + 1, !.newLineNumber = @ + 1]
    [] line.type = "Deleted" ->
         [d EXCEPT !.hunkStart = IF d.hunkLines = <<>> THEN d.oldLineNumber ELSE @,
                   !.hunkLines = Append(@, HunkLine("-", line.text)),
                   !.oldLineNumber = @ + 1]
    [] OTHER ->
         [d EXCEPT !.hunkStart = IF d.hunkLines = <<>> THEN d.newLineNumber ELSE @,
                   !.hunkLines = Append(@, HunkLine("+", line.text)),
                   !.newLineNumber = @ + 1]

\* the body of foreach (var line in diff.Lines): switch (line.Type)
OnDiffLine(d, line) ==
  CASE line.type = "Unchanged" ->
         [d EXCEPT !.sb = IF Len(d.hunkLines) > 0
                          THEN WriteHunk(d.sb, d.hunkStart, d.oldLineNumber - d.hunkStart,
                                         d.newLineNumber - d.hunkStart, d.hunkLines)
                          ELSE @,
                   !.hunkLines = <<>>,
                   !.hunkStart = d.oldLineNumber,
                   !.oldLineNumber = @ + 1, !.newLineNumber = @ + 1]
    [] line.type = "Deleted" ->
         [d EXCEPT !.hunkStart = IF d.hunkLines = <<>> THEN d.oldLineNumber ELSE @,
                   !.hunkLines = Append(@, HunkLine("-", line.text)),
                   !.oldLineNumber = @ + 1]
    [] line.type = "Inserted" ->
         [d EXCEPT !.hunkStart = IF d.hunkLines = <<>> THEN d.newLineNumber ELSE @,
                   !.hunkLines = Append(@, HunkLine("+", line.text)),
                   !.newLineNumber = @ + 1]
    [] line.type = "Modified" ->
         [d EXCEPT !.hunkStart = IF d.hunkLines = <<>> THEN d.oldLineNumber ELSE @,
                   !.hunkLines = @ \o <<HunkLine("-", line.text), HunkLine("+", line.text)>>,
                   !.oldLineNumber = @ + 1, !.newLineNumber = @ + 1]

RECURSIVE ForEachDiffLine(_, _)
ForEachDiffLine(d, lines) ==
  IF lines = <<>> THEN d ELSE ForEachDiffLine(OnDiffLine(d, Head(lines)), Tail(lines))

\* GenerateUnifiedDiff(fileName, oldText, newText) once the library returned lines
GenerateUnifiedDiff(fileName, lines) ==
  LET d == ForEachDiffLine(DiffStart, lines)
  IN [header |-> <<"--- a/" \o fileName, "+++ b/" \o fileName>>,
      hunks |-> IF Len(d.hunkLines) > 0
                THEN WriteHunk(d.sb, d.hunkStart, d.oldLineNumber - d.hunkStart,
                               d.newLineNumber - d.hunkStart, d.hunkLines)
                ELSE d.sb]

\* createPatch(filePath, oldStr, newStr) is called without options: the diff package
\* then puts up to Context unchanged lines around the changed ones into each hunk
Context == 4

Changed(line) == line.type # "Unchanged"

InHunk(lines, k) ==
  \E j \in 1..Len(lines) : Changed(lines[j]) /\ k - j <= Context /\ j - k <= Context

RECURSIVE HunksFrom(_, _)
HunksFrom(lines, k) ==
  IF k > Len(lines) THEN <<>>
  ELSE IF ~InHunk(lines, k) THEN HunksFrom(lines, k + 1)
  ELSE LET ends == {e \in k..Len(lines) : \A x \in k..e : InHunk(lines, x)}
           e == CHOOSE x \in ends : \A y \in ends : y <= x
           sign(l) == CASE l.type = "Deleted" -> "-" [] l.type = "Inserted" -> "+" [] OTHER -> " "
       IN <<[lines |-> [x \in 1..(e - k + 1) |->
                          HunkLine(sign(lines[k + x - 1]), lines[k + x - 1].text)]]>>
          \o HunksFrom(lines, e + 1)

\* the hunks of the patch that createPatch returns; their header numbers and the file
\* header lines are the library's and are left out
createPatchHunks(fileName, lines) == [hunks |-> HunksFrom(lines, 1)]

(***************************************************************************)
(* SpecDiff: getFilePatch / GetFilePatchAsync make the patch of one file   *)
(* from its old and new text.                                              *)
(***************************************************************************)
InitDiff ==
  /\ ServerInit
  /\ arg \in [fileName : {"f"}, oldText : Texts, newText : Texts]
  /\ result = NotRun

Synthesize ==
  /\ ~result.done
  /\ \E lines \in BuildDiffModel(arg.oldText, arg.newText) :
       result' = Ran([lines |-> lines,
                      patch |-> IF port = "ts" THEN createPatchHunks(arg.fileName, lines)
                                ELSE GenerateUnifiedDiff(arg.fileName, lines)])
  /\ UNCHANGED <<server, arg>>

NextDiff == Synthesize

SpecDiff == InitDiff /\ [][NextDiff]_vars

(***************************************************************************)
(* SpecBranches: getPrFileChanges from the PR details response to the      *)
(* diffs request, for one PR summary; the branch names include one that    *)
(* holds the text refs/heads/ itself.                                      *)
(***************************************************************************)
BranchRefs ==
  RefValues \cup {Str(<<RefsHeads, "release">>), Str(<<RefsHeads, "hotfix-", RefsHeads, "x">>)}

BranchBodies ==
  [ json : {TRUE}, status : StatusValues, mergeStatus : MergeStatusValues,
    sourceRefName : BranchRefs, targetRefName : BranchRefs ]

InitBranches == ServerInit /\ arg \in BranchBodies /\ result = NotRun

ResolveBranches ==
  /\ host.state = "running"
  /\ ~result.done
  /\ \E url \in PrUrls :
       /\ parsePrUrl(url) # NoLocator
       /\ LET loc == parsePrUrl(url)
              s == onDetailsResponse(port, DetailsRequest(loc), arg)
          IN result' = Ran(advance(port, authType, accountId, loc, Local(Only), 0, s, arg))
  /\ UNCHANGED <<server, arg>>

NextBranches == ResolveBranches

SpecBranches == InitBranches /\ [][NextBranches]_vars

(***************************************************************************)
(* SpecPorts: getPrFileChanges of the TypeScript port and                  *)
(* GetPrFileChangesAsync of the .NET port, each run to its end on the same *)
(* URL and the same responses of the service; every token acquisition is   *)
(* granted, and the responses arrive in the order of the getFilePatch      *)
(* calls.                                                                  *)
(***************************************************************************)
\* change entries as either port may receive them: letter case of changeType and
\* gitObjectType as the service documents it or capitalised, path or url empty
ChangeEntriesOfPorts ==
  ChangeEntries \cup
  { [changeType |-> "Add", item |-> GitItem("/a", Absent, "n1", "blob", "u")],
    [changeType |-> "edit", item |-> GitItem("/b", "o1", "n2", "Blob", "u")],
    [changeType |-> "edit", item |-> GitItem("", "o1", "n2", "blob", "u")],
    [changeType |-> "add", item |-> GitItem("/a", Absent, "n1", "blob", "")] }

ChangeListsOfPorts == UNION {[1..n -> ChangeEntriesOfPorts] : n \in 0..MaxChanges}

ActiveSummary ==
  [json |-> TRUE, status |-> "active", mergeStatus |-> "succeeded",
   sourceRefName |-> Str(<<RefsHeads, "feature x">>),
   targetRefName |-> Str(<<RefsHeads, "main">>)]

OneEdit == CommitDiffs(<<[changeType |-> "edit", item |-> GitItem("/b", "o1", "n2", "blob", "u")]>>)

Reply(status, body) == [status |-> status, body |-> body]

DetailsReplies ==
  {Reply(200, body) : body \in PullRequestBodies} \cup {Reply(e, NotJson) : e \in HttpErrors}

DiffsReplies ==
  {Reply(200, CommitDiffs(list)) : list \in ChangeListsOfPorts}
  \cup {Reply(200, data) : data \in DiffsBodies}
  \cup {Reply(e, OneEdit) : e \in HttpErrors}

BlobStatuses == [BlobIds -> {200, 404}]

\* the service as one invocation sees it: what it answers to each request
Services ==
  [url : PrUrls, details : DetailsReplies, diffs : {Reply(200, OneEdit)},
   blobs : {[b \in BlobIds |-> 200]}]
  \cup
  [url : {u \in PrUrls : parsePrUrl(u) # NoLocator}, details : {Reply(200, ActiveSummary)},
   diffs : DiffsReplies, blobs : BlobStatuses]

\* the send record of flow k once the service has answered its request
respond(p, s, service) ==
  LET answer == CASE s.url.kind = "details" -> service.details
                 [] s.url.kind = "diffs" -> service.diffs
                 [] OTHER -> Reply(service.blobs[s.url.sha], Absent)
  IN IF answer.status # 200 THEN onErrorStatus(p, s, answer.status)
     ELSE IF s.url.kind = "details" THEN onDetailsResponse(p, s, answer.body)
     ELSE IF s.url.kind = "diffs" THEN onDiffsResponse(p, s, answer.body)
     ELSE Ok(s, 200, BlobStore[s.url.sha])

\* the send record of flow k after its next await has settled
settle(p, s, service) ==
  IF s.st = "silent" THEN getTokenAfterSilent(s, "token")
  ELSE IF s.st = "interactive"
  THEN getTokenAfterInteractive(s, "token", CHOOSE acct \in Accounts : TRUE)
  ELSE respond(p, s, service)

\* the body that the response of the send record carries
bodyOf(s, service) ==
  IF s.url.kind = "details" THEN service.details.body
  ELSE IF s.url.kind = "diffs" THEN service.diffs.body
  ELSE Absent

\* the invocation goes on until nothing of it is in flight
RECURSIVE runToEnd(_, _, _, _)
runToEnd(p, loc, L, service) ==
  LET waiting == {k \in Flow : InFlight(L.send[k])}
      k == CHOOSE x \in waiting : \A y \in waiting : x <= y
  IN IF waiting = {} THEN L
     ELSE runToEnd(p, loc,
                   advance(p, authType, accountId, loc, L, k,
                           settle(p, L.send[k], service), bodyOf(L.send[k], service)),
                   service)

\* getPrFileChanges / GetPrFileChangesAsync from its call to its result
getPrFileChanges(p, service) ==
  LET loc == parsePrUrl(service.url)
      entered == [Local(Only) EXCEPT !.outcome = Pending,
                                     !.send[0] = sendRequest(DetailsRequest(loc), authType, accountId)]
  IN IF loc = NoLocator THEN Failure(Err("InvalidLocator"))
     ELSE runToEnd(p, loc, entered, service).outcome

InitPorts == ServerInit /\ arg \in Services /\ result = NotRun

ResolveOnBothPorts ==
  /\ host.state = "running"
  /\ ~result.done
  /\ result' = Ran([p \in Ports |-> getPrFileChanges(p, arg)])
  /\ UNCHANGED <<server, arg>>

NextPorts == ResolveOnBothPorts

SpecPorts == InitPorts /\ [][NextPorts]_vars

(***************************************************************************)
(* Claims.                                                                 *)
(***************************************************************************)
Flows == Inv \X Flow

\* C1: a diffs request or a blob request is issued by an invocation only if the PR
\* summary it fetched had status "active" and mergeStatus "succeeded"; while the
\* fetched summary violates either, the invocation has issued no diffs and no blob
\* request.
C1_DiffsOnlyForActiveMergeablePr ==
  \A i \in Inv :
    sent[i]["diffs"] + sent[i]["blob"] > 0
      => prDetails[i].status = "active" /\ prDetails[i].mergeStatus = "succeeded"

C1_Witness ==
  \E i \in Inv :
    /\ prDetails[i].status = "active"
    /\ prDetails[i].mergeStatus = "conflicts"
    /\ sent[i]["details"] = 1
    /\ outcome[i].state = "error"

\* C2: in an invocation in which some blob retrieval failed (non-2xx response, or
\* any other failure), resolveChanges never returns a FileDiff array.
C2_BlobFailureFailsTheOperation ==
  \A i \in Inv : blobFailed[i] => outcome[i].state # "ok"

\* C8: every send issues at most one HTTP request, and a non-2xx response makes the
\* send fail with RemoteRequestFailed carrying the status, the reason phrase and the
\* caller's operation label.
C8_NoRetryAndRemoteRequestFailed ==
  \A f \in Flows :
    LET s == send[f[1]][f[2]] IN
    /\ s.attempts <= 1
    /\ s.respStatus \in HttpErrors
         => s.st = "failed" /\ s.err = HttpErr(s.label, s.respStatus)

\* C9: a decoded PR summary whose status is not "active" fails the operation with
\* PullRequestNotActive (also when mergeStatus is not "succeeded" either); one whose
\* status is "active" and whose mergeStatus is not "succeeded" fails it with
\* PullRequestHasConflicts.
C9_StatusErrorBeforeConflictError ==
  \A i \in Inv :
    LET d == prDetails[i] IN
    /\ d.decoded /\ d.status \notin {"active", Absent}
         => outcome[i] = Failure(Err("PullRequestNotActive"))
    /\ d.decoded /\ d.status = "active" /\ d.mergeStatus \notin {"succeeded", Absent}
         => outcome[i] = Failure(Err("PullRequestHasConflicts"))

C9_Witness ==
  \E i \in Inv :
    /\ prDetails[i].decoded
    /\ prDetails[i].status = "completed"
    /\ prDetails[i].mergeStatus = "conflicts"
    /\ outcome[i].state = "error"

\* C10: when sourceRef or targetRef of an active, mergeable PR summary names no
\* branch (absent, empty, or exactly "refs/heads/"), resolveChanges fails with
\* BranchResolutionFailed and issues no diffs request.
C10_NoBranchNameFails ==
  \A i \in Inv :
    LET d == prDetails[i] IN
    d.status = "active" /\ d.mergeStatus = "succeeded" /\ d.noBranch
      => outcome[i] = Failure(Err("BranchResolutionFailed")) /\ sent[i]["diffs"] = 0

\* the interactive acquisition flows in flight
InteractiveFlows == {f \in Flows : send[f[1]][f[2]].st = "interactive"}

\* C3: at most one interactive acquisition flow is in flight at any time, however
\* many acquire() calls run concurrently.
C3_OneInteractiveFlowAtATime == Cardinality(InteractiveFlows) <= 1

\* the FileDiff that the blobs of the remote store give for a file item
ExpectedPatch(item) ==
  FilePatch(item,
            IF Truthy(item.originalObjectId) THEN BlobStore[item.originalObjectId] ELSE Absent,
            IF Truthy(item.objectId) THEN BlobStore[item.objectId] ELSE Absent)

\* C4: a successful resolveChanges returns one FileDiff per eligible entry, and
\* element k of the result is the FileDiff of element k of the filtered change list,
\* whatever the order in which the blob requests completed.
C4_ResultFollowsFilteredList ==
  \A i \in Inv :
    call[i].tool = "get_pr_changes" /\ outcome[i].state = "ok"
      => /\ Len(outcome[i].changes) = Len(fileItems[i])
         /\ \A k \in 1..Len(fileItems[i]) :
              /\ outcome[i].changes[k].filePath = fileItems[i][k].path
              /\ ~blobFailed[i] => outcome[i].changes[k] = ExpectedPatch(fileItems[i][k])

C4_Witness ==
  \E i \in Inv :
    /\ outcome[i].state = "ok"
    /\ Len(outcome[i].changes) = 2
    /\ completed[i] = <<2, 1>>
    /\ fileItems[i][1].path # fileItems[i][2].path

\* a sendRequest call of flow f begins in this step
Begins(f) ==
  /\ authType = "interactive"
  /\ send[f[1]][f[2]].st \notin {"silent", "interactive"}
  /\ send'[f[1]][f[2]].st \in {"silent", "interactive"}

\* C5: an acquire() call starts an interactive flow only if it found no cached
\* account or its silent request failed; when the silent request for the cached
\* account yields a token, the call goes on with that token and starts no flow.
C5_InteractiveOnlyAsFallback ==
  [][\A f \in Flows :
       LET s == send[f[1]][f[2]]
           t == send'[f[1]][f[2]]
       IN /\ (s.st # "interactive" /\ t.st = "interactive")
               => \/ s.st = "silent" /\ t.silentOutcome = "throw"
                  \/ Begins(f) /\ accountId = NoAccount
          /\ (s.st = "silent" /\ t.silentOutcome = "token")
               => /\ t.st = "fetch"
                  /\ t.auth = Authorization("interactive", SilentToken)
                  /\ accountId' = accountId]_vars

C5_Witness ==
  \E f \in Flows :
    /\ send[f[1]][f[2]].st = "fetch"
    /\ send[f[1]][f[2]].silentOutcome = "token"
    /\ accountId # NoAccount

\* C6: the account of a successful interactive acquisition is cached, stays cached,
\* and every acquire() that begins while an account is cached first attempts the
\* silent renewal with that account; it prompts only after that renewal failed.
C6_CachedAccountIsReused ==
  [][\A f \in Flows :
       LET s == send[f[1]][f[2]]
           t == send'[f[1]][f[2]]
       IN /\ (s.st = "interactive" /\ t.st = "fetch") => accountId' = t.resultAccount
          /\ accountId # NoAccount => accountId' # NoAccount
          /\ (Begins(f) /\ accountId # NoAccount)
               => t.st = "silent" /\ t.account = accountId
          /\ (s.st = "silent" /\ t.st = "interactive") => t.silentOutcome = "throw"]_vars

C6_Witness ==
  \E f \in Flows :
    /\ accountId # NoAccount
    /\ send[f[1]][f[2]].st = "silent"
    /\ send[f[1]][f[2]].account = accountId

\* C7: when the interactive flow completes without a usable access token, acquire()
\* fails with AuthenticationFailed and the gateway call issues no HTTP request.
C7_EmptyInteractiveTokenFails ==
  \A f \in Flows :
    LET s == send[f[1]][f[2]] IN
    s.interactiveOutcome = "empty"
      => s.st = "failed" /\ s.err = Err("AuthenticationFailed") /\ s.attempts = 0

C7_Witness ==
  \E f \in Flows : send[f[1]][f[2]].interactiveOutcome = "empty"

\* C11: an empty change list fails resolveChanges with NoChangesFound, a non-empty
\* list without an eligible entry fails it with NoEligibleFiles, and in both cases
\* the invocation issues no blob request.
C11_EmptyOrIneligibleChangeList ==
  \A i \in Inv :
    LET list == changes[i].list IN
    /\ changes[i].fetched /\ Len(list) = 0
         => outcome[i] = Failure(Err("NoChangesFound")) /\ sent[i]["blob"] = 0
    /\ changes[i].fetched /\ Len(list) > 0
          /\ (\A k \in 1..Len(list) : ~isSupportedChange(port, list[k]))
         => outcome[i] = Failure(Err("NoEligibleFiles")) /\ sent[i]["blob"] = 0

C11_Witness ==
  \E i \in Inv :
    /\ changes[i].fetched
    /\ Len(changes[i].list) = 2
    /\ outcome[i] = Failure(Err("NoEligibleFiles"))

IsDevAzureUrl(url) ==
  /\ Len(url) = 9
  /\ url[1] \in Schemes /\ url[2] = "dev.azure.com/"
  /\ url[4] = "/" /\ url[6] = "/_git/" /\ url[8] = "/pullrequest/"
  /\ url[9] \in DigitTokens

IsVisualStudioUrl(url) ==
  /\ Len(url) = 8
  /\ url[1] \in Schemes /\ url[3] = ".visualstudio.com/"
  /\ url[5] = "/_git/" /\ url[7] = "/pullrequest/"
  /\ url[8] \in DigitTokens

\* C13: parse returns the exact (organization, project, repository, pullRequestId)
\* of every URL of the two shapes and fails with InvalidLocator for every other
\* string, also for one that contains such a URL after other text or before it.
C13_ParseExactOrInvalidLocator ==
  result.done =>
    result.value =
      IF IsDevAzureUrl(arg)
      THEN [organization |-> arg[3], project |-> arg[5], repository |-> arg[7],
            pullRequestId |-> DigitValue[arg[9]]]
      ELSE IF IsVisualStudioUrl(arg)
      THEN [organization |-> arg[2], project |-> arg[4], repository |-> arg[6],
            pullRequestId |-> DigitValue[arg[8]]]
      ELSE NoLocator

\* C14: every locator that parse returns has pullRequestId >= 1 and a non-empty
\* organization, project and repository; an id segment of 0 is rejected.
C14_LocatorIdPositive ==
  result.done /\ result.value # NoLocator =>
    /\ result.value.pullRequestId >= 1
    /\ result.value.organization # ""
    /\ result.value.project # ""
    /\ result.value.repository # ""

\* C15: the Authorization header of every request in flight is "Basic " and the
\* base64 of ":" + token under a static credential, "Bearer " and the token under a
\* delegated one, whichever endpoint the request goes to.
C15_AuthorizationByCredentialKind ==
  \A f \in Flows :
    LET s == send[f[1]][f[2]]
        token == IF s.interactiveOutcome = "token" THEN InteractiveToken ELSE SilentToken
    IN s.st = "fetch" =>
         s.auth = IF authType = "pat"
                  THEN [scheme |-> "Basic", value |-> <<"base64", ":", PAT>>]
                  ELSE [scheme |-> "Bearer", value |-> <<token>>]

C15_Witness ==
  \E f \in Flows :
    /\ authType = "pat"
    /\ send[f[1]][f[2]].st = "fetch"
    /\ send[f[1]][f[2]].url.kind = "blob"
    /\ send[f[1]][f[2]].auth.scheme = "Basic"

\* the indices at which a maximal run of changed lines of the comparison begins
RunStarts(lines) ==
  SelectSeq([k \in 1..Len(lines) |-> k],
            LAMBDA k : Changed(lines[k]) /\ (k = 1 \/ ~Changed(lines[k - 1])))

\* the number of lines of the given types before index k
Before(lines, k, types) == Len(SelectSeq(SubSeq(lines, 1, k - 1), LAMBDA l : l.type \in types))

Signed(hunkLines, sign) == Len(SelectSeq(hunkLines, LAMBDA l : l.sign = sign))

\* C16: every hunk header written by synthesize carries the old and new line cursors
\* at the first line of the hunk as oldStart and newStart, the number of '-' lines
\* of the hunk as oldCount and the number of its '+' lines as newCount.
C16_HunkHeaderNumbers ==
  port = "dotnet" /\ result.done =>
    LET lines == result.value.lines
        hunks == result.value.patch.hunks
        starts == RunStarts(lines)
    IN /\ Len(hunks) = Len(starts)
       /\ \A h \in 1..Len(hunks) :
            /\ hunks[h].oldStart = 1 + Before(lines, starts[h], {"Unchanged", "Deleted"})
            /\ hunks[h].newStart = 1 + Before(lines, starts[h], {"Unchanged", "Inserted"})
            /\ hunks[h].oldCount = Signed(hunks[h].lines, "-")
            /\ hunks[h].newCount = Signed(hunks[h].lines, "+")

\* C17: the hunks of a synthesized diff are the maximal runs of changed lines of the
\* comparison, one hunk per run, and no unchanged line is in a hunk body.
C17_HunksAreChangedRuns ==
  result.done =>
    LET lines == result.value.lines
        hunks == result.value.patch.hunks
        starts == RunStarts(lines)
    IN /\ Len(hunks) = Len(starts)
       /\ \A h \in 1..Len(hunks) :
            /\ \A x \in 1..Len(hunks[h].lines) :
                 /\ hunks[h].lines[x].sign \in {"-", "+"}
                 /\ starts[h] + x - 1 <= Len(lines)
                 /\ Changed(lines[starts[h] + x - 1])
                 /\ hunks[h].lines[x].text = lines[starts[h] + x - 1].text
            /\ starts[h] + Len(hunks[h].lines) <= Len(lines)
                 => ~Changed(lines[starts[h] + Len(hunks[h].lines)])

\* C18: the diff of a text against itself is the two header lines and no hunk.
C18_SameTextNoHunks ==
  port = "dotnet" /\ result.done /\ arg.oldText = arg.newText =>
    result.value.patch = [header |-> <<"--- a/f", "+++ b/f">>, hunks |-> <<>>]

C18_Witness ==
  /\ port = "dotnet"
  /\ result.done
  /\ arg.oldText = arg.newText
  /\ Len(arg.oldText) = MaxLines

\* C19: a publish call issues one POST and no other request; the POST goes to the
\* threads URL of the parsed locator and carries one comment with the supplied text
\* and a thread context with the supplied path, lines and offsets as supplied,
\* whatever their values.
C19_OnePostWithSuppliedAnchor ==
  \A i \in Inv :
    call[i].tool = "post_pr_comment" =>
      LET s == send[i][0]
          o == call[i].options
      IN /\ sent[i]["threads"] <= 1
         /\ sent[i]["details"] + sent[i]["diffs"] + sent[i]["blob"] = 0
         /\ outcome[i].state = "ok" => sent[i]["threads"] = 1
         /\ s.st = "fetch" =>
              /\ sent[i]["threads"] = 1
              /\ s.method = "POST"
              /\ s.url.kind = "threads"
              /\ s.url.base = <<"https://dev.azure.com/", Locator(i).organization,
                                Locator(i).project, Locator(i).repository>>
              /\ s.url.id = Locator(i).pullRequestId
              /\ s.body.comments = <<[content |-> o.comment]>>
              /\ s.body.threadContext.filePath = o.filePath
              /\ s.body.threadContext.rightFileStart =
                   [line |-> o.rightFileStartLine, offset |-> o.rightFileStartOffset]
              /\ s.body.threadContext.rightFileEnd =
                   [line |-> o.rightFileEndLine, offset |-> o.rightFileEndOffset]

C19_Witness ==
  \E i \in Inv :
    /\ call[i].tool = "post_pr_comment"
    /\ call[i].options.rightFileEndLine < call[i].options.rightFileStartLine
    /\ outcome[i].state = "ok"
    /\ sent[i]["threads"] = 1

\* C20: when a tool handler returns, an operation that failed (invalid URL,
\* credential failure, non-2xx response, PR not active, conflicts, no changes, no
\* eligible files, a failed blob retrieval) gives a text result with the error flag,
\* and a result saying success: true is given only for an operation that completed
\* without any such failure.
C20_FailuresBecomeErrorResults ==
  [][\A i \in Inv :
       reply'[i].given /\ ~reply[i].given =>
         /\ outcome[i].state = "error" \/ blobFailed[i]
              => /\ reply'[i].isError
                 /\ reply'[i].text = <<ErrorPrefix(call[i].tool), outcome[i].error>>
         /\ ~reply'[i].isError
              => /\ outcome[i].state = "ok"
                 /\ Head(reply'[i].text) = "success: true"]_vars

\* C21: an invocation that failed leaves nothing behind for the next one: when the
\* handler of an invocation that got no credential to issue a request with returns an
\* error, the cached
\* account of the credential provider, the only state that outlives an invocation,
\* is the one the invocation found, so that the next invocation starts as it would
\* have started without it.
C21_FailedInvocationLeavesNoState ==
  [][\A i \in Inv :
       /\ reply'[i].given /\ ~reply[i].given
       /\ outcome[i].state = "error"
       /\ \A kd \in Kinds : sent[i][kd] = 0
       => accountId' = call[i].account]_vars

\* C22: every request that get_pr_changes issues is a GET of the PR details, the
\* diffs or a blob, and the only request with another method is the thread-creation
\* POST of post_pr_comment, of which an invocation issues at most one.
C22_OnlyThreadCreationIsNotGet ==
  \A f \in Flows :
    LET i == f[1]
        s == send[i][f[2]]
    IN /\ call[i].tool = "get_pr_changes" => sent[i]["threads"] = 0
       /\ sent[i]["threads"] <= 1
       /\ s.attempts > 0 =>
            /\ call[i].tool = "get_pr_changes"
                 => s.method = "GET" /\ s.url.kind \in {"details", "diffs", "blob"}
            /\ s.url.kind \in {"details", "diffs", "blob"} => s.method = "GET"
            /\ s.method # "GET"
                 => /\ call[i].tool = "post_pr_comment"
                    /\ s.method = "POST"
                    /\ s.url.kind = "threads"
                    /\ f[2] = 0

C22_Witness ==
  \E i \in Inv :
    /\ call[i].tool = "get_pr_changes"
    /\ sent[i]["details"] = 1 /\ sent[i]["diffs"] = 1 /\ sent[i]["blob"] = 2
    /\ outcome[i].state = "ok"

\* C23: when the body of the PR details response or of the diffs response is not
\* JSON, or the PR summary lacks status, mergeStatus or a ref, or the diffs body lacks
\* the changes array, the operation fails with the decode error; it is not reported
\* as PullRequestNotActive, NoChangesFound or any other outcome.
C23_DecodeFailureIsMalformedResponse ==
  \A i \in Inv :
    prDetails[i].malformed \/ changes[i].malformed
      => /\ outcome[i].state = "error"
         /\ outcome[i].error.kind \in {"SyntaxError", "JsonException"}

\* C24: an invocation of resolveChanges issues at most one PR details request and at
\* most one diffs request, and exactly one of each when it succeeds; the diffs
\* request is issued only after the details response was received and validated, and
\* a blob request only after the diffs response was received and filtered, so that
\* no diffs or blob request exists while the details request is in flight and no
\* blob request while the diffs request is.
C24_NetworkStepsInOrder ==
  \A i \in Inv :
    call[i].tool = "get_pr_changes" =>
      LET list == changes[i].list
          kept == SelectSeq(list, LAMBDA c : isSupportedChange(port, c))
      IN /\ sent[i]["details"] <= 1 /\ sent[i]["diffs"] <= 1
         /\ outcome[i].state = "ok" => sent[i]["details"] = 1 /\ sent[i]["diffs"] = 1
         /\ sent[i]["diffs"] > 0
              => /\ sent[i]["details"] = 1
                 /\ prDetails[i].status = "active" /\ prDetails[i].mergeStatus = "succeeded"
                 /\ ~(send[i][0].st = "fetch" /\ send[i][0].url.kind = "details")
         /\ sent[i]["blob"] > 0
              => /\ sent[i]["diffs"] = 1
                 /\ changes[i].fetched
                 /\ fileItems[i] = [k \in 1..Len(kept) |-> kept[k].item]
                 /\ Len(fileItems[i]) > 0
                 /\ ~(send[i][0].st = "fetch")

C24_Witness ==
  \E i \in Inv :
    /\ call[i].tool = "get_pr_changes"
    /\ sent[i]["details"] = 1 /\ sent[i]["diffs"] = 1
    /\ Len(changes[i].list) = 2 /\ Len(fileItems[i]) = 1
    /\ send[i][1].st = "fetch" /\ send[i][1].url.kind = "blob"

\* C25: a request is in flight only after the send that issues it acquired its own
\* credential: the static token of the server, or a token from the silent renewal or
\* the interactive acquisition of that send; a send whose acquisition failed or gave
\* an empty token has issued no request; and a server in static mode without a
\* configured token fails with MissingCredential and issues no request at all.
C25_AcquireBeforeEveryRequest ==
  /\ \A f \in Flows :
       LET s == send[f[1]][f[2]]
       IN /\ s.st = "fetch" =>
               /\ s.attempts = 1
               /\ s.auth.scheme # "none" /\ s.auth.value # <<>>
               /\ IF authType = "pat" THEN host.pat # ""
                  ELSE s.silentOutcome = "token" \/ s.interactiveOutcome = "token"
          /\ s.silentOutcome = "empty" \/ s.interactiveOutcome \in {"throw", "empty"}
               => s.st = "failed" /\ s.attempts = 0
          /\ s.st = "failed" /\ s.err.kind \in {"MissingCredential", "AuthenticationFailed",
                                                "InteractionFailed"}
               => s.attempts = 0
  /\ authType = "pat" /\ host.pat = ""
       => /\ host.error = Err("MissingCredential")
          /\ \A i \in Inv, kd \in Kinds : sent[i][kd] = 0
          /\ \A f \in Flows : send[f[1]][f[2]].st # "fetch"

C25_Witness ==
  \E i \in Inv :
    /\ send[i][1].url.kind = "blob" /\ send[i][1].st = "failed"
    /\ send[i][1].interactiveOutcome = "empty" /\ send[i][1].attempts = 0
    /\ send[i][2].url.kind = "blob" /\ send[i][2].st = "fetch"
    /\ send[i][2].interactiveOutcome = "token"

\* the sides of the file items of invocation i that have a blob id
SidesPresent(i) ==
  {x \in (1..Len(fileItems[i])) \X {"orig", "new"} :
     Truthy(IF x[2] = "orig" THEN fileItems[i][x[1]].originalObjectId
            ELSE fileItems[i][x[1]].objectId)}

\* C26: getFilePatch requests the original blob exactly when the entry has an
\* original blob id and the new blob exactly when it has a new blob id, a missing side
\* being diffed as empty text; in the FileDiff of a successful invocation
\* originalContent is absent exactly when the original blob id is, and an entry with
\* only a new blob id gives a FileDiff without originalContent whose patch is made
\* against the empty text.
C26_BlobPerPresentSide ==
  \A i \in Inv :
    /\ \A k \in 1..Len(fileItems[i]) :
         LET item == fileItems[i][k]
             t == task[i][k]
             s == send[i][k]
         IN /\ t.stage = "orig"
                 => /\ Truthy(item.originalObjectId)
                    /\ s.st = "fetch" => s.url.sha = item.originalObjectId
            /\ t.stage = "new"
                 => /\ Truthy(item.objectId)
                    /\ s.st = "fetch" => s.url.sha = item.objectId
            /\ t.stage = "done" /\ ~Truthy(item.originalObjectId) => t.sourceContent = Absent
            /\ t.stage = "done" /\ ~Truthy(item.objectId) => t.newContent = Absent
    /\ call[i].tool = "get_pr_changes" /\ outcome[i].state = "ok"
         => /\ sent[i]["blob"] = Cardinality(SidesPresent(i))
            /\ \A k \in 1..Len(fileItems[i]) :
                 LET item == fileItems[i][k]
                     fd == outcome[i].changes[k]
                 IN /\ fd.sourceContent = Absent <=> ~Truthy(item.originalObjectId)
                    /\ ~Truthy(item.originalObjectId) => fd.patch.oldText = ""
                    /\ ~Truthy(item.objectId) => fd.patch.newText = ""

\* the ref is the full name of a branch
NamesBranch(ref) == ref.defined /\ Len(ref.toks) >= 2 /\ Head(ref.toks) = RefsHeads

\* the percent-encoded short name of the branch
ShortNameEncoded(ref) == [k \in 1..(Len(ref.toks) - 1) |-> EncodeToken(ref.toks[k + 1])]

\* C27: for an active, mergeable PR summary whose refs name branches, the diffs
\* request compares target -> source: baseVersion is the percent-encoded short name
\* of the summary's target branch and targetVersion that of its source branch.
C27_DiffsFromTargetToSource ==
  /\ result.done
  /\ arg.status = "active" /\ arg.mergeStatus = "succeeded"
  /\ NamesBranch(arg.sourceRefName) /\ NamesBranch(arg.targetRefName)
  => /\ result.value.send[0].url.kind = "diffs"
     /\ result.value.send[0].url.baseVersion = ShortNameEncoded(arg.targetRefName)
     /\ result.value.send[0].url.targetVersion = ShortNameEncoded(arg.sourceRefName)

\* C28: resolveChanges has its success result only when every getFilePatch call of
\* the invocation has completed, and when every token acquisition and every request
\* completes, every invocation of either tool ends in success or in an error.
C28_JoinedAndTerminating ==
  /\ [](\A i \in Inv :
          call[i].tool = "get_pr_changes" /\ outcome[i].state = "ok"
            => /\ Len(fileItems[i]) > 0
               /\ Len(outcome[i].changes) = Len(fileItems[i])
               /\ \A k \in 1..Len(fileItems[i]) :
                    task[i][k].stage = "done" /\ ~InFlight(send[i][k]))
  /\ \A i \in Inv :
       (call[i].tool # "none") ~> (outcome[i].state \in {"ok", "error"})

C28_Witness ==
  \E i \in Inv :
    /\ call[i].tool = "get_pr_changes"
    /\ outcome[i].state = "ok"
    /\ Len(fileItems[i]) = 2
    /\ sent[i]["blob"] = 3
    /\ \A k \in 1..2 : task[i][k].stage = "done"

\* C29: a token acquisition that ends in AuthenticationFailed leaves the cached account
\* as it was; a successful silent renewal leaves it as it was; and the cached account
\* changes only in a step in which an interactive acquisition produced a usable token.
C29_FailedAcquireKeepsAccount ==
  [][/\ \A f \in Flows :
          LET s == send[f[1]][f[2]]
              t == send'[f[1]][f[2]]
          IN /\ ( /\ s.st \in {"silent", "interactive"}
                  /\ t.st = "failed"
                  /\ t.err.kind = "AuthenticationFailed" ) => accountId' = accountId
             /\ (s.st = "silent" /\ t.st = "fetch") => accountId' = accountId
     /\ accountId' # accountId
          => \E f \in Flows : /\ send[f[1]][f[2]].st = "interactive"
                              /\ send'[f[1]][f[2]].st = "fetch"]_vars

\* C30: on the same URL and the same responses, getPrFileChanges of the TypeScript
\* port and GetPrFileChangesAsync of the .NET port end alike: both with an error of the
\* same kind, or both with a result of as many file changes, each with or without its
\* original content as in the other.
ErrorKindOf(e) ==
  IF e.kind \in {"SyntaxError", "JsonException"} THEN "MalformedResponse" ELSE e.kind

Observed(out) ==
  IF out.state = "error" THEN <<"error", ErrorKindOf(out.error)>>
  ELSE <<out.state, [k \in 1..Len(out.changes) |-> out.changes[k].sourceContent # Absent]>>

C30_PortsEndAlike ==
  result.done => Observed(result.value["ts"]) = Observed(result.value["dotnet"])

====
